---- MODULE Spec2Model ----
(***************************************************************************)
(* Model of the dataset helper scripts: split_dataset.py (Splitter),       *)
(* validate_split.py (Split Validator), merge_classifications.py (Merger)  *)
(* and extract_age_only.py (Age Extractor).  Each script is a sequential   *)
(* batch program; each has its own specification below.  The variables of  *)
(* the programs that a specification does not run stay at their idle       *)
(* values.                                                                 *)
(***************************************************************************)
EXTENDS Integers, Sequences, FiniteSets, TLC

(***************************************************************************)
(* Python values.  None stands for Python's None: the value of a JSON null *)
(* and what dict.get(key) returns for a key that is absent.  NoKey marks a *)
(* key absent from a JSON object in the fields the code reads by subscript *)
(* (an absent key raises KeyError) or by dict.get(key, default).  A JSONL  *)
(* line is an object (kind "obj"), a JSON value that is no object          *)
(* ("nonobj"), or text json.loads rejects ("bad").                         *)
(***************************************************************************)
None == "None"

NoKey == "NoKey"

Truthy(v) == v # None /\ v # ""

BadLine == [kind |-> "bad"]

\* a line that parses to a JSON value that is no object, a list for instance
NonObjLine == [kind |-> "nonobj"]

Min(a, b) == IF a <= b THEN a ELSE b

\* lines[a:b] for 0 <= a, 0 <= b: Python clamps both ends to len(lines)
PySlice(s, a, b) ==
    LET lo == Min(a, Len(s))
        hi == Min(b, Len(s))
    IN  IF lo >= hi THEN << >> ELSE SubSeq(s, lo + 1, hi)

\* all sequences over S of length at most n
RECURSIVE SeqsUpTo(_, _)
SeqsUpTo(S, n) ==
    IF n = 0 THEN { << >> }
    ELSE LET shorter == SeqsUpTo(S, n - 1)
         IN  shorter \cup { Append(s, x) : s \in { t \in shorter : Len(t) = n - 1 }, x \in S }

(***************************************************************************)
(* File names.  The chunk files are train_split_<NN>.jsonl and the result  *)
(* files gender_classifications_results_<stem>.jsonl: within one directory *)
(* the names differ in the digits only, so a name is modelled by its digit *)
(* sequence.  Python's sorted() compares the names character by character; *)
(* the character after the digits is '.', which is smaller than every      *)
(* digit, so a name whose digits are a proper prefix of another's sorts    *)
(* first.                                                                  *)
(***************************************************************************)
RECURSIVE Digits(_)
Digits(n) == IF n < 10 THEN << n >> ELSE Append(Digits(n \div 10), n % 10)

\* f"{n:02d}": decimal digits, padded with zeros to a width of at least 2
Fmt02(n) == IF n < 10 THEN << 0, n >> ELSE Digits(n)

RECURSIVE LexLess(_, _)
LexLess(a, b) ==
    IF a = << >> THEN b # << >>
    ELSE IF b = << >> THEN FALSE
    ELSE IF Head(a) # Head(b) THEN Head(a) < Head(b)
    ELSE LexLess(Tail(a), Tail(b))

\* sorted(names): the names of S in ascending lexical order
RECURSIVE Sorted(_)
Sorted(S) ==
    IF S = {} THEN << >>
    ELSE LET least == CHOOSE x \in S : \A y \in S \ {x} : LexLess(x, y)
         IN  << least >> \o Sorted(S \ {least})

\* the directory dir (file name -> lines) with file name replaced by content
WriteFile(dir, name, content) ==
    [n \in (DOMAIN dir) \cup {name} |-> IF n = name THEN content ELSE dir[n]]

EmptyDir == [n \in {} |-> << >>]

\* the lines of the files of dir, concatenated in the order of names
RECURSIVE Concat(_, _)
Concat(dir, names) ==
    IF names = << >> THEN << >>
    ELSE dir[Head(names)] \o Concat(dir, Tail(names))

(***************************************************************************)
(* Bounds of the model                                                     *)
(***************************************************************************)
MaxLines == 3
MaxSplits == 4
MaxValLines == 2
MaxLoadLines == 3
MaxTrainLines == 2
MaxAgeLines == 2
MaxManySplits == 100

CaseIds == {"a", "b"}
CaseNos == {"1", "2"}

VARIABLES
    \* split_dataset.py
    lines, num_splits, chunk_dir, split_i, split_pc,
    \* validate_split.py
    original_file, split_dir, original_case_ids, split_case_ids,
    duplicates, missing_cases, extra_cases, val_report, all_passed, val_pc

    ,
    \* merge_classifications.py, load_classifications
    results_dir, result_file, line_num, classifications, load_duplicates,
    total_loaded, load_pc,
    \* merge_classifications.py, merge_with_train and what follows it
    train_file, outfile, merged_count, no_classification_found, total_cases,
    merge_line, orphaned_classifications, verdict, merge_pc
    ,
    \* extract_age_only.py
    age_infile, age_line, results, stats, age_outfile, age_pc

ageVars == << age_infile, age_line, results, stats, age_outfile, age_pc >>

loadVars == << results_dir, result_file, line_num, classifications, load_duplicates,
               total_loaded, load_pc >>

mergeVars == << train_file, outfile, merged_count, no_classification_found, total_cases,
                merge_line, orphaned_classifications, verdict, merge_pc >>

splitVars == << lines, num_splits, chunk_dir, split_i, split_pc >>

valVars == << original_file, split_dir, original_case_ids, split_case_ids,
              duplicates, missing_cases, extra_cases, val_report, all_passed, val_pc >>

vars == << splitVars, valVars, loadVars, mergeVars, ageVars >>

(***************************************************************************)
(* Splitter: split_dataset.py, split_jsonl                                 *)
(***************************************************************************)
\* a source line: unparsable, JSON that is no object, or an object with
\* case_no and a case_id that is an identifier, null or absent
SplitLine ==
    { BadLine, NonObjLine } \cup
    { [kind |-> "obj", case_id |-> k[1], case_no |-> k[2]] :
        k \in { << "a", "1" >>, << "a", "2" >>, << "b", "1" >>, << None, "1" >>,
                << NoKey, "1" >> } }

\* a line of a chunk file an earlier run left in output_dir
LeftLine == [kind |-> "obj", case_id |-> "b", case_no |-> "2"]

\* line 28: os.makedirs(output_dir, exist_ok=True) removes nothing: the
\* directory is empty, or holds a chunk file of an earlier run
OutputDirs ==
    { EmptyDir } \cup
    { WriteFile(EmptyDir, Fmt02(c), << LeftLine >>) : c \in 1 .. (MaxSplits + 1) }

IdleSplit ==
    /\ lines = << >>
    /\ num_splits = 0
    /\ chunk_dir = EmptyDir
    /\ split_i = 0
    /\ split_pc = "idle"

InitSplitter ==
    /\ lines = << >>
    /\ num_splits \in 1 .. MaxSplits
    /\ chunk_dir \in OutputDirs
    /\ split_i = 0
    /\ split_pc = "read"

\* lines 21-25: f.readlines()
SplitRead ==
    /\ split_pc = "read"
    /\ \E ls \in SeqsUpTo(SplitLine, MaxLines) : lines' = ls
    /\ split_pc' = "loop"
    /\ UNCHANGED << num_splits, chunk_dir, split_i >>

\* lines 21-22: f.readlines() on a source of as many records as splits
ManyLine == [kind |-> "obj", case_id |-> "a", case_no |-> "1"]

SplitReadMany ==
    /\ split_pc = "read"
    /\ lines' = [j \in 1 .. num_splits |-> ManyLine]
    /\ split_pc' = "loop"
    /\ UNCHANGED << num_splits, chunk_dir, split_i >>

\* lines_per_file rounded up instead of down
LinesPerFileCeil == (Len(lines) + num_splits - 1) \div num_splits

\* line 25
lines_per_file == Len(lines) \div num_splits

\* EndIdx without the special case of the last file
EndIdxNoRemainder(i) == (i + 1) * lines_per_file

\* lines 38-41: for the last file, include any remaining lines
EndIdx(i) ==
    IF i = num_splits - 1 THEN Len(lines) ELSE (i + 1) * lines_per_file

\* lines 36-43
ChunkLines(i) == PySlice(lines, i * lines_per_file, EndIdx(i))

\* lines 52-53: json.loads(chunk_lines[0]) and first_case['case_id']; the
\* subscript raises TypeError on a value that is no object and KeyError on
\* an object without the key, and yields None for a null case_id
FirstCaseError(chunk_lines) ==
    IF chunk_lines = << >> THEN "IndexError"
    ELSE IF chunk_lines[1].kind = "bad" THEN "JSONDecodeError"
    ELSE IF chunk_lines[1].kind = "nonobj" THEN "TypeError"
    ELSE IF chunk_lines[1].case_id = NoKey THEN "KeyError"
    ELSE "none"

\* lines 35-53: one iteration of the loop; the chunk file is written before
\* its first line is parsed, and an exception there leaves the function
SplitChunk ==
    /\ split_pc = "loop"
    /\ split_i < num_splits
    /\ chunk_dir' = WriteFile(chunk_dir, Fmt02(split_i + 1), ChunkLines(split_i))
    /\ IF FirstCaseError(ChunkLines(split_i)) # "none"
       THEN /\ split_pc' = FirstCaseError(ChunkLines(split_i))
            /\ split_i' = split_i
       ELSE /\ split_i' = split_i + 1
            /\ split_pc' = IF split_i + 1 = num_splits THEN "done" ELSE "loop"
    /\ UNCHANGED << lines, num_splits >>

(***************************************************************************)
(* Split Validator: validate_split.py, validate_split                      *)
(***************************************************************************)
\* the lines the Validator is run on: unparsable, JSON that is no object, an
\* object without case_id, an object with a null case_id, or a record
ValLine ==
    { BadLine, NonObjLine } \cup
    { [kind |-> "obj", case_id |-> k[1], case_no |-> k[2]] :
        k \in { << NoKey, "1" >>, << None, "1" >>, << "a", "1" >>, << "a", "2" >>,
                << "b", "1" >> } }

\* chunk directories: none, one or two .jsonl files
ValDirs ==
    { EmptyDir } \cup
    { WriteFile(EmptyDir, Fmt02(1), ls) : ls \in SeqsUpTo(ValLine, MaxValLines + 1) } \cup
    { WriteFile(WriteFile(EmptyDir, Fmt02(1), PySlice(ls, 0, c)), Fmt02(2), PySlice(ls, c, Len(ls))) :
        ls \in SeqsUpTo(ValLine, MaxValLines + 1), c \in 0 .. (MaxValLines + 1) }

IdleVal ==
    /\ original_file = << >>
    /\ split_dir = EmptyDir
    /\ original_case_ids = << >>
    /\ split_case_ids = << >>
    /\ duplicates = << >>
    /\ missing_cases = {}
    /\ extra_cases = {}
    /\ val_report = << >>
    /\ all_passed = FALSE
    /\ val_pc = "idle"

\* lines 23-24 and 38-39: json.loads(line) and case['case_id'], uncaught;
\* the subscript raises TypeError on a value that is no object and KeyError
\* on an object without the key, and yields None for a null case_id
LineError(line) ==
    IF line.kind = "bad" THEN "JSONDecodeError"
    ELSE IF line.kind = "nonobj" THEN "TypeError"
    ELSE IF line.case_id = NoKey THEN "KeyError"
    ELSE "none"

FirstError(ls) ==
    IF \E j \in DOMAIN ls : LineError(ls[j]) # "none"
    THEN LineError(ls[CHOOSE j \in DOMAIN ls :
                        /\ LineError(ls[j]) # "none"
                        /\ \A h \in 1 .. (j - 1) : LineError(ls[h]) = "none"])
    ELSE "none"

CaseIdsOf(ls) == [j \in DOMAIN ls |-> ls[j].case_id]

\* lines 19-26: read the original file
ReadOriginal(f) ==
    /\ val_pc = "read_original"
    /\ original_file' = f
    /\ IF FirstError(f) # "none"
       THEN /\ val_pc' = FirstError(f)
            /\ original_case_ids' = original_case_ids
       ELSE /\ val_pc' = "read_splits"
            /\ original_case_ids' = CaseIdsOf(f)
    /\ UNCHANGED << split_dir, split_case_ids, duplicates, missing_cases,
                    extra_cases, val_report, all_passed >>

\* line 31: sorted(f for f in os.listdir(split_dir) if f.endswith('.jsonl'))
split_files(d) == Sorted(DOMAIN d)

\* lines 28-43: read the split files in sorted order
ReadSplits(d) ==
    /\ val_pc = "read_splits"
    /\ split_dir' = d
    /\ LET all == Concat(d, split_files(d))
       IN  IF FirstError(all) # "none"
           THEN /\ val_pc' = FirstError(all)
                /\ split_case_ids' = split_case_ids
           ELSE /\ val_pc' = "hard_checks"
                /\ split_case_ids' = CaseIdsOf(all)
    /\ UNCHANGED << original_file, original_case_ids, duplicates, missing_cases,
                    extra_cases, val_report, all_passed >>

Range(s) == { s[j] : j \in DOMAIN s }

\* line 58: Counter(split_case_ids)[c]
split_counter(c) == Cardinality({ j \in DOMAIN split_case_ids : split_case_ids[j] = c })

PassFail(b) == IF b THEN "PASS" ELSE "FAIL"

\* lines 93-103: a mismatch of an order check is printed as a warning
PassWarning(b) == IF b THEN "PASS" ELSE "WARNING"

\* lines 50-90: checks 1 to 4, each reported
HardChecks ==
    /\ val_pc = "hard_checks"
    /\ duplicates' = [c \in { x \in Range(split_case_ids) : split_counter(x) > 1 } |-> split_counter(c)]
    /\ missing_cases' = Range(original_case_ids) \ Range(split_case_ids)
    /\ extra_cases' = Range(split_case_ids) \ Range(original_case_ids)
    /\ val_report' = val_report \o
          << << "count", PassFail(Len(original_case_ids) = Len(split_case_ids)) >>,
             << "duplicates", PassFail(DOMAIN duplicates' = {}) >>,
             << "missing", PassFail(missing_cases' = {}) >>,
             << "extra", PassFail(extra_cases' = {}) >> >>
    /\ val_pc' = "order_checks"
    /\ UNCHANGED << original_file, split_dir, original_case_ids, split_case_ids, all_passed >>

\* lines 92-103: original_case_ids[0] == split_case_ids[0], then [-1];
\* indexing an empty list raises IndexError
OrderChecks ==
    /\ val_pc = "order_checks"
    /\ IF original_case_ids = << >> \/ split_case_ids = << >>
       THEN /\ val_pc' = "IndexError"
            /\ val_report' = val_report
       ELSE /\ val_pc' = "verdict"
            /\ val_report' = val_report \o
                  << << "first", PassWarning(original_case_ids[1] = split_case_ids[1]) >>,
                     << "last", PassWarning(original_case_ids[Len(original_case_ids)]
                                           = split_case_ids[Len(split_case_ids)]) >> >>
    /\ UNCHANGED << original_file, split_dir, original_case_ids, split_case_ids,
                    duplicates, missing_cases, extra_cases, all_passed >>

\* AllPassed without the count check
AllPassedNoCount ==
    /\ DOMAIN duplicates = {}
    /\ missing_cases = {}
    /\ extra_cases = {}

\* AllPassed with the first-identifier order check made a hard check
AllPassedWithOrder ==
    /\ Len(original_case_ids) = Len(split_case_ids)
    /\ DOMAIN duplicates = {}
    /\ missing_cases = {}
    /\ extra_cases = {}
    /\ original_case_ids[1] = split_case_ids[1]

\* lines 108-113
AllPassed ==
    /\ Len(original_case_ids) = Len(split_case_ids)
    /\ DOMAIN duplicates = {}
    /\ missing_cases = {}
    /\ extra_cases = {}

\* lines 107-122: the final verdict is returned
Verdict ==
    /\ val_pc = "verdict"
    /\ all_passed' = AllPassed
    /\ val_pc' = "returned"
    /\ UNCHANGED << original_file, split_dir, original_case_ids, split_case_ids,
                    duplicates, missing_cases, extra_cases, val_report >>

ValRaised == val_pc \in { "JSONDecodeError", "TypeError", "KeyError", "IndexError" }

(***************************************************************************)
(* Classification Merger: merge_classifications.py                         *)
(***************************************************************************)
\* a file of the results directory whose name does not start with
\* gender_classifications_results_ or does not end with .jsonl
OtherFile == << 99 >>

\* lines 10-11: f.startswith(...) and f.endswith('.jsonl')
IsResultFile(n) == \A j \in DOMAIN n : n[j] \in 0 .. 9

\* a listing order of the matching files that is not the sorted one
ResultFilesReversed(d) ==
    LET srt == Sorted({ n \in DOMAIN d : IsResultFile(n) })
    IN  [j \in DOMAIN srt |-> srt[Len(srt) + 1 - j]]

\* lines 9-12: the matching files of the directory, sorted by name
result_files(d) == Sorted({ n \in DOMAIN d : IsResultFile(n) })

\* result.get('classification', {}) of an entry without that key
EmptyClassification == "{}"

\* a result line: unparsable, JSON that is no object, or an entry with a
\* composite key and a classification that is a payload, null or absent
Entry(k, c) == [kind |-> "obj", case_id |-> k[1], case_no |-> k[2], classification |-> c]

LoadLine ==
    { BadLine, NonObjLine, Entry(<< None, "1" >>, "Male"), Entry(<< "a", "" >>, "Male"),
      Entry(<< "a", "2" >>, "Male") } \cup
    { Entry(<< "a", "1" >>, c) : c \in { "Male", "Female", None, NoKey } }

\* pairs of result file names; "10" sorts before "2"
NamePairs == { << Fmt02(1), Fmt02(2) >>, << << 1, 0 >>, << 2 >> >> }

\* results directories: two result files and a file of another name
LoadDirs ==
    { WriteFile(WriteFile(WriteFile(EmptyDir, np[1], PySlice(ls, 0, c)),
                          np[2], PySlice(ls, c, Len(ls))),
                OtherFile, << Entry(<< "a", "1" >>, "Other") >>) :
        np \in NamePairs, ls \in SeqsUpTo(LoadLine, MaxLoadLines), c \in 0 .. MaxLoadLines }

EmptyMap == [k \in {} |-> None]

IdleLoad ==
    /\ results_dir = EmptyDir
    /\ result_file = 0
    /\ line_num = 0
    /\ classifications = EmptyMap
    /\ load_duplicates = << >>
    /\ total_loaded = 0
    /\ load_pc = "idle"

InitLoader ==
    /\ results_dir \in LoadDirs
    /\ result_file = 1
    /\ line_num = 1
    /\ classifications = EmptyMap
    /\ load_duplicates = << >>
    /\ total_loaded = 0
    /\ load_pc = "load"

\* the file the outer loop of line 19 is at
CurrentFile == result_files(results_dir)[result_file]

\* classifications[key] = classification
Put(map, key, value) ==
    [k \in (DOMAIN map) \cup {key} |-> IF k = key THEN value ELSE map[k]]

\* Put that keeps the entry already recorded for a key
PutIfAbsent(map, key, value) ==
    IF key \in DOMAIN map THEN map ELSE Put(map, key, value)

\* line 49: the mapping entry is overwritten unconditionally
Store(map, key, value) == Put(map, key, value)

\* lines 25-56: one line of the current result file
LoadEntry ==
    /\ load_pc = "load"
    /\ result_file <= Len(result_files(results_dir))
    /\ line_num <= Len(results_dir[CurrentFile])
    /\ LET result == results_dir[CurrentFile][line_num]
       IN  IF \/ result.kind \in { "bad", "nonobj" }
              \/ ~Truthy(result.case_id)
              \/ ~Truthy(result.case_no)
           THEN UNCHANGED << classifications, load_duplicates, total_loaded >>
           ELSE LET key == << result.case_id, result.case_no >>
                    classification == IF result.classification = NoKey
                                      THEN EmptyClassification
                                      ELSE result.classification
                IN  /\ load_duplicates' =
                          IF key \in DOMAIN classifications
                          THEN Append(load_duplicates,
                                      [case_id |-> result.case_id, case_no |-> result.case_no,
                                       file |-> CurrentFile, line |-> line_num])
                          ELSE load_duplicates
                    /\ classifications' = Store(classifications, key, classification)
                    /\ total_loaded' = total_loaded + 1
    /\ line_num' = line_num + 1
    /\ UNCHANGED << results_dir, result_file, load_pc >>

\* lines 19-25, 58: the current file is exhausted, go to the next one
LoadNextFile ==
    /\ load_pc = "load"
    /\ result_file <= Len(result_files(results_dir))
    /\ line_num > Len(results_dir[CurrentFile])
    /\ result_file' = result_file + 1
    /\ line_num' = 1
    /\ UNCHANGED << results_dir, classifications, load_duplicates, total_loaded, load_pc >>

\* lines 60-68: return classifications, duplicates
LoadReturn ==
    /\ load_pc = "load"
    /\ result_file > Len(result_files(results_dir))
    /\ load_pc' = "loaded"
    /\ UNCHANGED << results_dir, result_file, line_num, classifications, load_duplicates,
                    total_loaded >>

\* a line of the base dataset: unparsable, JSON that is no object, or a
\* record with its other fields
Case(k, c) ==
    [kind |-> "obj", case_id |-> k[1], case_no |-> k[2], classification |-> c,
     facts |-> "facts"]

TrainLine ==
    { BadLine, NonObjLine, Case(<< "a", "1" >>, "Old"), Case(<< "b", "1" >>, "Old") } \cup
    { Case(k, None) :
        k \in { << None, None >>, << None, "1" >>, << "a", None >>, << "", "1" >>,
                << "a", "" >>, << "a", "1" >>, << "a", "2" >>, << "b", "1" >> } }

\* the mappings load_classifications can return to the merge phase
Mappings ==
    UNION { [ks -> { "Male", "Female", EmptyClassification, None }] :
              ks \in SUBSET { << "a", "1" >>, << "a", "2" >> } }

IdleMerge ==
    /\ train_file = << >>
    /\ outfile = << >>
    /\ merged_count = 0
    /\ no_classification_found = << >>
    /\ total_cases = 0
    /\ merge_line = 0
    /\ orphaned_classifications = {}
    /\ verdict = "none"
    /\ merge_pc = "idle"

InitMerger ==
    /\ train_file \in SeqsUpTo(TrainLine, MaxTrainLines)
    /\ outfile = << >>
    /\ merged_count = 0
    /\ no_classification_found = << >>
    /\ total_cases = 0
    /\ merge_line = 1
    /\ orphaned_classifications = {}
    /\ verdict = "none"
    /\ merge_pc = "merge"

\* case_id or 'MISSING'
OrMissing(v) == IF Truthy(v) THEN v ELSE "MISSING"

\* Attach that also replaces the facts of the record
AttachReplacingFacts(case, classification) ==
    [case EXCEPT !.classification = classification, !.facts = classification]

\* line 104: case['classification'] = classifications[key]
Attach(case, classification) == [case EXCEPT !.classification = classification]

\* lines 81-125: one line of the base dataset
MergeCase ==
    /\ merge_pc = "merge"
    /\ merge_line <= Len(train_file)
    /\ LET case == train_file[merge_line]
       IN  IF case.kind = "bad"
           THEN UNCHANGED << outfile, merged_count, no_classification_found, total_cases >>
           ELSE IF case.kind = "nonobj"
           THEN /\ total_cases' = total_cases + 1
                /\ UNCHANGED << outfile, merged_count, no_classification_found >>
           ELSE IF ~Truthy(case.case_id) \/ ~Truthy(case.case_no)
           THEN /\ total_cases' = total_cases + 1
                /\ no_classification_found' =
                      Append(no_classification_found,
                             [case_id |-> OrMissing(case.case_id),
                              case_no |-> OrMissing(case.case_no),
                              line |-> merge_line, reason |-> "missing key"])
                /\ UNCHANGED << outfile, merged_count >>
           ELSE LET key == << case.case_id, case.case_no >>
                IN  /\ total_cases' = total_cases + 1
                    /\ IF key \in DOMAIN classifications
                       THEN /\ outfile' = Append(outfile, Attach(case, classifications[key]))
                            /\ merged_count' = merged_count + 1
                            /\ UNCHANGED no_classification_found
                       ELSE /\ outfile' = Append(outfile, case)
                            /\ no_classification_found' =
                                  Append(no_classification_found,
                                         [case_id |-> case.case_id, case_no |-> case.case_no,
                                          line |-> merge_line, reason |-> "no match"])
                            /\ UNCHANGED merged_count
    /\ merge_line' = merge_line + 1
    /\ UNCHANGED << train_file, orphaned_classifications, verdict, merge_pc >>

\* line 127: return merged_count, no_classification_found, total_cases
MergeReturn ==
    /\ merge_pc = "merge"
    /\ merge_line > Len(train_file)
    /\ merge_pc' = "check"
    /\ UNCHANGED << train_file, outfile, merged_count, no_classification_found, total_cases,
                    merge_line, orphaned_classifications, verdict >>

\* train_keys matching a base record by its case_id alone
TrainKeysByCaseId ==
    { k \in DOMAIN classifications :
        \E h \in DOMAIN train_file :
            /\ train_file[h].kind = "obj"
            /\ Truthy(train_file[h].case_id)
            /\ Truthy(train_file[h].case_no)
            /\ train_file[h].case_id = k[1] }

\* lines 134-145: the composite keys of the base dataset, second pass
train_keys ==
    { << train_file[j].case_id, train_file[j].case_no >> :
        j \in { h \in DOMAIN train_file :
                  /\ train_file[h].kind = "obj"
                  /\ Truthy(train_file[h].case_id)
                  /\ Truthy(train_file[h].case_no) } }

\* lines 130-151: check_classifications_not_in_train
CheckOrphans ==
    /\ merge_pc = "check"
    /\ orphaned_classifications' = (DOMAIN classifications) \ train_keys
    /\ merge_pc' = "report"
    /\ UNCHANGED << train_file, outfile, merged_count, no_classification_found, total_cases,
                    merge_line, verdict >>

\* Report with the unmatched base records left out of the verdict
ReportIgnoringUnmatched ==
    /\ merge_pc = "report"
    /\ verdict' = IF /\ Len(load_duplicates) = 0
                     /\ Cardinality(orphaned_classifications) = 0
                  THEN "perfect merge"
                  ELSE "merge completed with issues"
    /\ merge_pc' = "done"
    /\ UNCHANGED << train_file, outfile, merged_count, no_classification_found, total_cases,
                    merge_line, orphaned_classifications >>

\* lines 227-241: the conclusion of the validation report
Report ==
    /\ merge_pc = "report"
    /\ verdict' = IF /\ Len(no_classification_found) = 0
                     /\ Len(load_duplicates) = 0
                     /\ Cardinality(orphaned_classifications) = 0
                  THEN "perfect merge"
                  ELSE "merge completed with issues"
    /\ merge_pc' = "done"
    /\ UNCHANGED << train_file, outfile, merged_count, no_classification_found, total_cases,
                    merge_line, orphaned_classifications >>

(***************************************************************************)
(* Age Extractor: extract_age_only.py                                      *)
(*                                                                         *)
(* An optional integer (int or None) is a sequence of length at most one.  *)
(* A fact text is represented by its length and by what findall of each    *)
(* birth-year pattern and of each age pattern returns on it, the matched   *)
(* digit strings already converted by int().  The value of facts is a list *)
(* of elements (fact texts, or elements that are no strings) or null.      *)
(***************************************************************************)
Absent == << >>

Some(v) == << v >>

FactsScanned == 10
MaxFactLen == 2000
BirthYearMin == 1850
BirthYearMax == 2020
AgeMin == 0
AgeMax == 120
CalcAgeMin == 0
CalcAgeMax == 120

Fact(n, b1, b2, b3, a1, a2, a3) ==
    [kind |-> "str", len |-> n, birth |-> << b1, b2, b3 >>, age |-> << a1, a2, a3 >>]

\* an element of facts that is no string, a number or a null: len(fact) on
\* lines 36 and 54 raises TypeError
NonStringFact == [kind |-> "nonstr"]

\* case.get('facts', []): a list of elements
ListFacts(items) == [kind |-> "list", items |-> items]

\* case.get('facts', []) of a record whose facts is null: facts[:10] on
\* lines 34 and 53 raises TypeError
NullFacts == [kind |-> "null", items |-> << >>]

\* "The applicant was born in <y>.": the first two birth patterns match
Born(y) == Fact(30, << y >>, << y >>, << >>, << >>, << >>, << >>)

\* "... at the age of <n> ...": the second age pattern matches
Aged(n) == Fact(30, << >>, << >>, << >>, << >>, << n >>, << >>)

\* "The applicant was born in <y> and was arrested at the age of <n>."
BornAged(y, n) == Fact(65, << y >>, << y >>, << >>, << >>, << n >>, << >>)

Procedural == Fact(30, << >>, << >>, << >>, << >>, << >>, << >>)

\* the elements the loop of line 34 visits before an element that is no
\* string, at which len(fact) raises
RECURSIVE StringsBefore(_)
StringsBefore(items) ==
    IF items = << >> THEN << >>
    ELSE IF Head(items).kind = "nonstr" THEN << >>
    ELSE << Head(items) >> \o StringsBefore(Tail(items))

\* the facts[:10] the loop visits that are not longer than 2000 characters,
\* in order
Scanned(facts) ==
    LET firsts == StringsBefore(PySlice(facts.items, 0, FactsScanned))
    IN  SelectSeq(firsts, LAMBDA f : ~(f.len > MaxFactLen))

\* facts[:10] holds an element that is no string
HasNonString(facts) ==
    \E j \in DOMAIN PySlice(facts.items, 0, FactsScanned) : facts.items[j].kind = "nonstr"

\* lines 34-36 and 53-54: the scan that found `found` raised TypeError: facts
\* is null, or the loop reached an element that is no string, which it does
\* when no earlier fact made it return
ScanRaises(facts, found) ==
    facts.kind = "null" \/ (HasNonString(facts) /\ found = Absent)

\* the matches in the order the loops visit them: facts, then patterns,
\* then the matches of one pattern
RECURSIVE Matches(_, _)
Matches(facts, field) ==
    IF facts = << >> THEN << >>
    ELSE LET m == IF field = "birth" THEN Head(facts).birth ELSE Head(facts).age
         IN  m[1] \o m[2] \o m[3] \o Matches(Tail(facts), field)

\* the first value of seq within lo..hi, None when there is none
RECURSIVE FirstWithin(_, _, _)
FirstWithin(seq, lo, hi) ==
    IF seq = << >> THEN Absent
    ELSE IF lo <= Head(seq) /\ Head(seq) <= hi THEN Some(Head(seq))
    ELSE FirstWithin(Tail(seq), lo, hi)

\* extract_birth_year without the sanity check of line 45
ExtractBirthYearUnchecked(facts) ==
    LET ms == Matches(Scanned(facts), "birth")
    IN  IF ms = << >> THEN Absent ELSE Some(Head(ms))

\* lines 28-50
extract_birth_year(facts) ==
    FirstWithin(Matches(Scanned(facts), "birth"), BirthYearMin, BirthYearMax)

\* lines 52-68
extract_direct_age(facts) ==
    FirstWithin(Matches(Scanned(facts), "age"), AgeMin, AgeMax)

\* judgment_date: absent, a string strptime rejects, or YYYY-MM-DD
NoDate == [kind |-> "none"]

TextDate == [kind |-> "text"]

Date(y) == [kind |-> "date", year |-> y]

\* calculate_age_at_judgment without the sanity check of line 79
CalculateAgeUnchecked(birth_year, judgment_date) ==
    IF birth_year = Absent \/ judgment_date.kind # "date" THEN Absent
    ELSE Some(judgment_date.year - birth_year[1])

\* lines 70-84
calculate_age_at_judgment(birth_year, judgment_date) ==
    IF birth_year = Absent \/ judgment_date.kind = "none" THEN Absent
    ELSE IF judgment_date.kind = "text" THEN Absent
    ELSE LET age == judgment_date.year - birth_year[1]
         IN  IF CalcAgeMin <= age /\ age <= CalcAgeMax THEN Some(age) ELSE Absent

\* Python truth value of an int or None: None and 0 are false
TruthyInt(v) == v # Absent /\ v[1] # 0

\* lines 123-128: records that are not skipped
Eligible(gender, confidence) ==
    /\ gender \in { "Male", "Female" }
    /\ confidence \in { "High", "Medium" }

\* lines 165-173
ResultEntry(case, birth_year, direct_age, calculated_age, final_age) ==
    [case_id |-> case.case_id,
     case_no |-> case.case_no,
     age_info |->
        [birth_year |-> birth_year,
         age_at_judgment |-> final_age,
         age_source |-> IF TruthyInt(calculated_age) THEN "calculated"
                        ELSE IF TruthyInt(direct_age) THEN "direct"
                        ELSE None]]

\* the (facts, judgment_date) of the records the extractor is run on
ExtractionSamples ==
    { << ListFacts(<< Born(1975) >>), Date(2010) >>,
      << ListFacts(<< Born(1749) >>), Date(2010) >>,
      << ListFacts(<< Born(2010) >>), Date(2010) >>,
      << ListFacts(<< Born(2010), Aged(5) >>), Date(2010) >>,
      << ListFacts(<< Born(2020) >>), Date(2010) >>,
      << ListFacts(<< Born(1850), Aged(30) >>), Date(2010) >>,
      << ListFacts(<< Born(1975), Aged(42) >>), TextDate >>,
      << ListFacts(<< Aged(42) >>), NoDate >>,
      << ListFacts(<< Aged(0) >>), NoDate >>,
      << ListFacts(<< Aged(121) >>), Date(2010) >>,
      << ListFacts(<< Fact(120, << 1749, 1975 >>, << 1749, 1975 >>, << >>, << 200 >>, << >>, << 7 >>) >>),
         Date(2010) >>,
      << ListFacts(<< Fact(2001, << 1975 >>, << 1975 >>, << >>, << >>, << 42 >>, << >>) >>),
         Date(2010) >>,
      << ListFacts([j \in 1 .. 11 |-> IF j = 11 THEN Born(1975) ELSE Procedural]), Date(2010) >>,
      << ListFacts(<< >>), Date(2010) >>,
      << NullFacts, Date(2010) >>,
      << ListFacts(<< NonStringFact >>), Date(2010) >>,
      << ListFacts(<< Born(1975), NonStringFact >>), Date(2010) >>,
      << ListFacts(<< BornAged(1975, 30), NonStringFact >>), Date(2010) >>,
      << ListFacts([j \in 1 .. 11 |-> IF j = 11 THEN NonStringFact ELSE Procedural]), Date(2010) >> }

\* the samples the records of the second kind are drawn from
FewSamples ==
    { << ListFacts(<< Born(1975) >>), Date(2010) >>,
      << ListFacts(<< Aged(42) >>), NoDate >>,
      << ListFacts(<< >>), Date(2010) >>,
      << NullFacts, Date(2010) >> }

AgeCase(k, g, c, x) ==
    [kind |-> "obj", case_id |-> k[1], case_no |-> k[2], gender |-> g, confidence |-> c,
     facts |-> x[1], judgment_date |-> x[2]]

AgeInputLine ==
    { BadLine, NonObjLine,
      AgeCase(<< "a", "1" >>, "Unknown", "High", << ListFacts(<< Born(1975) >>), Date(2010) >>),
      AgeCase(<< "a", "2" >>, "Male", "Low", << ListFacts(<< Born(1975) >>), Date(2010) >>),
      AgeCase(<< "b", "2" >>, None, None, << ListFacts(<< Born(1975) >>), Date(2010) >>) } \cup
    { AgeCase(<< "a", "1" >>, "Male", "High", x) : x \in ExtractionSamples } \cup
    { AgeCase(<< "b", "1" >>, "Female", "Medium", x) : x \in FewSamples }

Counters ==
    { "total_processed", "male_cases", "female_cases", "high_confidence",
      "medium_confidence", "birth_years_found", "direct_ages_found", "calculated_ages",
      "total_with_age" }

IdleAge ==
    /\ age_infile = << >>
    /\ age_line = 0
    /\ results = << >>
    /\ stats = [c \in Counters |-> 0]
    /\ age_outfile = << >>
    /\ age_pc = "idle"

InitAgeExtractor ==
    /\ age_infile \in SeqsUpTo(AgeInputLine, MaxAgeLines)
    /\ age_line = 1
    /\ results = << >>
    /\ stats = [c \in Counters |-> 0]
    /\ age_outfile = << >>
    /\ age_pc = "process"

\* lines 130-139: the counters a record adds to before the extraction
CountedBeforeExtraction(case) ==
    { "total_processed" }
    \cup (IF case.gender = "Male" THEN { "male_cases" } ELSE { "female_cases" })
    \cup (IF case.confidence = "High" THEN { "high_confidence" } ELSE { "medium_confidence" })

\* lines 130-139 and 152-159: the counters a processed record adds to
Counted(case, birth_year, direct_age, calculated_age, final_age) ==
    { "total_processed" }
    \cup (IF case.gender = "Male" THEN { "male_cases" } ELSE { "female_cases" })
    \cup (IF case.confidence = "High" THEN { "high_confidence" } ELSE { "medium_confidence" })
    \cup (IF TruthyInt(birth_year) THEN { "birth_years_found" } ELSE {})
    \cup (IF TruthyInt(direct_age) THEN { "direct_ages_found" } ELSE {})
    \cup (IF TruthyInt(calculated_age) THEN { "calculated_ages" } ELSE {})
    \cup (IF TruthyInt(final_age) THEN { "total_with_age" } ELSE {})

\* lines 109-184: one line of the input file; a TypeError raised by the
\* extraction is caught on line 183 after the record was counted, and the
\* record gets no entry
ProcessCase ==
    /\ age_pc = "process"
    /\ age_line <= Len(age_infile)
    /\ LET case == age_infile[age_line]
       IN  IF case.kind # "obj"
           THEN UNCHANGED << results, stats >>
           ELSE IF ~Eligible(case.gender, case.confidence)
           THEN UNCHANGED << results, stats >>
           ELSE LET birth_year == extract_birth_year(case.facts)
                    direct_age == extract_direct_age(case.facts)
                    calculated_age == calculate_age_at_judgment(birth_year, case.judgment_date)
                    final_age == IF calculated_age # Absent THEN calculated_age ELSE direct_age
                IN  IF \/ ScanRaises(case.facts, birth_year)
                       \/ ScanRaises(case.facts, direct_age)
                    THEN /\ results' = results
                         /\ stats' = [c \in Counters |->
                               IF c \in CountedBeforeExtraction(case)
                               THEN stats[c] + 1 ELSE stats[c]]
                    ELSE /\ results' = Append(results,
                               ResultEntry(case, birth_year, direct_age, calculated_age, final_age))
                         /\ stats' = [c \in Counters |->
                               IF c \in Counted(case, birth_year, direct_age, calculated_age,
                                                final_age)
                               THEN stats[c] + 1 ELSE stats[c]]
    /\ age_line' = age_line + 1
    /\ UNCHANGED << age_infile, age_outfile, age_pc >>

\* lines 186-192: write the results and return
WriteResults ==
    /\ age_pc = "process"
    /\ age_line > Len(age_infile)
    /\ age_outfile' = results
    /\ age_pc' = "done"
    /\ UNCHANGED << age_infile, age_line, results, stats >>

(***************************************************************************)
(* Specifications                                                          *)
(***************************************************************************)
SplitterRead == SplitRead /\ UNCHANGED << valVars, loadVars, mergeVars, ageVars >>

SplitterChunk == SplitChunk /\ UNCHANGED << valVars, loadVars, mergeVars, ageVars >>

InitSplit == InitSplitter /\ IdleVal /\ IdleLoad /\ IdleMerge /\ IdleAge

NextSplit == SplitterRead \/ SplitterChunk

SpecSplit == InitSplit /\ [][NextSplit]_vars

\* split_jsonl with up to MaxManySplits splits of a source of one record
\* per split
SplitterReadMany == SplitReadMany /\ UNCHANGED << valVars, loadVars, mergeVars, ageVars >>

InitSplitMany ==
    /\ lines = << >>
    /\ num_splits \in 1 .. MaxManySplits
    /\ chunk_dir \in OutputDirs
    /\ split_i = 0
    /\ split_pc = "read"
    /\ IdleVal
    /\ IdleLoad
    /\ IdleMerge
    /\ IdleAge

NextSplitMany == SplitterReadMany \/ SplitterChunk

SpecSplitMany == InitSplitMany /\ [][NextSplitMany]_vars

ValidateReadOriginal ==
    /\ val_pc = "read_original"
    /\ \E f \in SeqsUpTo(ValLine, MaxValLines) : ReadOriginal(f)
    /\ UNCHANGED << splitVars, loadVars, mergeVars, ageVars >>

ValidateReadSplits ==
    /\ val_pc = "read_splits"
    /\ \E d \in ValDirs : ReadSplits(d)
    /\ UNCHANGED << splitVars, loadVars, mergeVars, ageVars >>

ValidateHardChecks == HardChecks /\ UNCHANGED << splitVars, loadVars, mergeVars, ageVars >>

ValidateOrderChecks == OrderChecks /\ UNCHANGED << splitVars, loadVars, mergeVars, ageVars >>

ValidateVerdict == Verdict /\ UNCHANGED << splitVars, loadVars, mergeVars, ageVars >>

InitValidate ==
    /\ IdleSplit
    /\ IdleLoad
    /\ IdleMerge
    /\ IdleAge
    /\ original_file = << >>
    /\ split_dir = EmptyDir
    /\ original_case_ids = << >>
    /\ split_case_ids = << >>
    /\ duplicates = << >>
    /\ missing_cases = {}
    /\ extra_cases = {}
    /\ val_report = << >>
    /\ all_passed = FALSE
    /\ val_pc = "read_original"

NextValidate ==
    \/ ValidateReadOriginal
    \/ ValidateReadSplits
    \/ ValidateHardChecks
    \/ ValidateOrderChecks
    \/ ValidateVerdict

SpecValidate == InitValidate /\ [][NextValidate]_vars

\* validate_split run on the source and on the chunk files split_jsonl wrote
PipelineReadOriginal ==
    /\ split_pc = "done"
    /\ ReadOriginal(lines)
    /\ UNCHANGED << splitVars, loadVars, mergeVars, ageVars >>

PipelineReadSplits ==
    /\ split_pc = "done"
    /\ ReadSplits(chunk_dir)
    /\ UNCHANGED << splitVars, loadVars, mergeVars, ageVars >>

InitPipeline ==
    /\ InitSplitter
    /\ IdleLoad
    /\ IdleMerge
    /\ IdleAge
    /\ original_file = << >>
    /\ split_dir = EmptyDir
    /\ original_case_ids = << >>
    /\ split_case_ids = << >>
    /\ duplicates = << >>
    /\ missing_cases = {}
    /\ extra_cases = {}
    /\ val_report = << >>
    /\ all_passed = FALSE
    /\ val_pc = "read_original"

NextPipeline ==
    \/ SplitterRead
    \/ SplitterChunk
    \/ PipelineReadOriginal
    \/ PipelineReadSplits
    \/ ValidateHardChecks
    \/ ValidateOrderChecks
    \/ ValidateVerdict

SpecPipeline == InitPipeline /\ [][NextPipeline]_vars

LoaderEntry == LoadEntry /\ UNCHANGED << splitVars, valVars, mergeVars, ageVars >>

LoaderNextFile == LoadNextFile /\ UNCHANGED << splitVars, valVars, mergeVars, ageVars >>

LoaderReturn == LoadReturn /\ UNCHANGED << splitVars, valVars, mergeVars, ageVars >>

InitLoad == IdleSplit /\ IdleVal /\ InitLoader /\ IdleMerge /\ IdleAge

NextLoad == LoaderEntry \/ LoaderNextFile \/ LoaderReturn

SpecLoad == InitLoad /\ [][NextLoad]_vars

\* the duplicates list load_classifications can return with a mapping: empty,
\* or one key of the mapping met a second time
LoadedDuplicates(map) ==
    { << >> } \cup
    { << [case_id |-> k[1], case_no |-> k[2], file |-> Fmt02(2), line |-> 1] >> :
        k \in DOMAIN map }

\* the merge phase and what follows it in main(), run on what the load phase
\* returned
MergerCase == MergeCase /\ UNCHANGED << splitVars, valVars, loadVars, ageVars >>

MergerReturn == MergeReturn /\ UNCHANGED << splitVars, valVars, loadVars, ageVars >>

MergerCheckOrphans == CheckOrphans /\ UNCHANGED << splitVars, valVars, loadVars, ageVars >>

MergerReport == Report /\ UNCHANGED << splitVars, valVars, loadVars, ageVars >>

InitMerge ==
    /\ IdleSplit
    /\ IdleVal
    /\ results_dir = EmptyDir
    /\ result_file = 0
    /\ line_num = 0
    /\ classifications \in Mappings
    /\ load_duplicates \in LoadedDuplicates(classifications)
    /\ total_loaded = Cardinality(DOMAIN classifications) + Len(load_duplicates)
    /\ load_pc = "loaded"
    /\ InitMerger
    /\ IdleAge

NextMerge == MergerCase \/ MergerReturn \/ MergerCheckOrphans \/ MergerReport

SpecMerge == InitMerge /\ [][NextMerge]_vars

AgeProcessCase == ProcessCase /\ UNCHANGED << splitVars, valVars, loadVars, mergeVars >>

AgeWriteResults == WriteResults /\ UNCHANGED << splitVars, valVars, loadVars, mergeVars >>

InitAge == IdleSplit /\ IdleVal /\ IdleLoad /\ IdleMerge /\ InitAgeExtractor

NextAge == AgeProcessCase \/ AgeWriteResults

SpecAge == InitAge /\ [][NextAge]_vars

(***************************************************************************)
(* Properties of the Splitter                                              *)
(***************************************************************************)
WellFormed(l) == l.kind = "obj" /\ l.case_id \notin { None, NoKey }

AllWellFormed(ls) == \A j \in DOMAIN ls : WellFormed(ls[j])

SplitEnded == split_pc \notin { "idle", "read", "loop" }

\* the number of chunk files the run has written: an exception in the check
\* of the first line comes after the chunk file was written
WrittenCount ==
    IF split_pc \in { "idle", "read", "loop", "done" } THEN split_i ELSE split_i + 1

\* the chunk files the run has written, without what an earlier run left in
\* the directory
WrittenChunks == [n \in { Fmt02(c) : c \in 1 .. WrittenCount } |-> chunk_dir[n]]

\* the positions (file, line number) of the lines of a directory
DirPositions(dir) == UNION { { << n, j >> : j \in DOMAIN dir[n] } : n \in DOMAIN dir }

KeyOf(l) == << l.case_id, l.case_no >>

KeyCountSeq(ls, k) ==
    Cardinality({ j \in DOMAIN ls : ls[j].kind = "obj" /\ KeyOf(ls[j]) = k })

KeyCountDir(dir, k) ==
    Cardinality({ p \in DirPositions(dir) :
                    dir[p[1]][p[2]].kind = "obj" /\ KeyOf(dir[p[1]][p[2]]) = k })

AllKeys == (CaseIds \cup {None, ""}) \X (CaseNos \cup {None, ""})

\* C3: for every source of L >= 0 lines and every N >= 1, split_jsonl
\* completes and the chunk files it wrote, concatenated in file name order,
\* equal the source line for line.  Stated for sources of well-formed
\* records, for which no line is a malformed first line of a chunk.
C3_RoundTrip ==
    (SplitEnded /\ AllWellFormed(lines)) =>
        /\ split_pc = "done"
        /\ Concat(WrittenChunks, Sorted(DOMAIN WrittenChunks)) = lines

\* C4: for a source of L well-formed records and 1 <= N <= L, split_jsonl
\* completes and every composite key (case_id, case_no) occurs in the N
\* chunk files of the split as many times as in the source.
C4_SplitCompleteness ==
    (SplitEnded /\ AllWellFormed(lines) /\ num_splits <= Len(lines)) =>
        /\ split_pc = "done"
        /\ WrittenCount = num_splits
        /\ \A k \in AllKeys : KeyCountDir(WrittenChunks, k) = KeyCountSeq(lines, k)

\* a finished split of three records into two chunks, the remainder going to
\* the last chunk, with one key occurring twice
C4_Witness ==
    /\ split_pc = "done"
    /\ AllWellFormed(lines)
    /\ Len(lines) = 3
    /\ num_splits = 2
    /\ lines[1] = lines[3]
    /\ Len(chunk_dir[Fmt02(2)]) = 2

(***************************************************************************)
(* Properties of the Split Validator                                       *)
(***************************************************************************)
CountEqual == Len(original_case_ids) = Len(split_case_ids)

NoDuplicate ==
    \A h, j \in DOMAIN split_case_ids :
        split_case_ids[h] = split_case_ids[j] => h = j

NoOmission ==
    \A h \in DOMAIN original_case_ids :
        \E j \in DOMAIN split_case_ids : split_case_ids[j] = original_case_ids[h]

NoExtra ==
    \A j \in DOMAIN split_case_ids :
        \E h \in DOMAIN original_case_ids : original_case_ids[h] = split_case_ids[j]

\* C5: the value validate_split returns is true exactly when the four hard
\* checks pass (count equality, no duplication, no omission, no extras); the
\* first/last order checks have no part in it.
C5_VerdictIsHardChecks ==
    val_pc = "returned" =>
        (all_passed <=> (CountEqual /\ NoDuplicate /\ NoOmission /\ NoExtra))

\* validate_split has returned true although both order checks reported a
\* mismatch
C5_Witness ==
    /\ val_pc = "returned"
    /\ all_passed
    /\ val_report[5] = << "first", "WARNING" >>
    /\ val_report[6] = << "last", "WARNING" >>

\* C6: for every source and every chunk directory content (a source with
\* zero records, chunks with zero records, chunks omitting records),
\* validate_split runs all its checks and returns a verdict rather than
\* raising.  Stated for inputs all of whose lines are well-formed records.
C6_NeverAborts ==
    (/\ AllWellFormed(original_file)
     /\ \A p \in DirPositions(split_dir) : WellFormed(split_dir[p[1]][p[2]]))
        => ~ValRaised

(***************************************************************************)
(* Properties of the Classification Merger                                 *)
(***************************************************************************)
MergeEnded == merge_pc \notin { "idle", "merge" }

MissingKey(l) == l.kind = "obj" /\ (~Truthy(l.case_id) \/ ~Truthy(l.case_no))

\* C1: for every base dataset and every mapping, the number of records
\* written to the output file equals the number of records of the base
\* dataset; no input record is skipped.
C1_MergeTotality ==
    MergeEnded =>
        Len(outfile) = Cardinality({ j \in DOMAIN train_file : train_file[j].kind = "obj" })

\* C2: a base record whose case_id or case_no is missing or empty is listed
\* as unmatched with the missing-key reason and is still written to the
\* output file unchanged.
C2_MissingKeyWrittenThrough ==
    MergeEnded =>
        \A j \in DOMAIN train_file :
            MissingKey(train_file[j]) =>
                /\ \E h \in DOMAIN no_classification_found :
                      /\ no_classification_found[h].line = j
                      /\ no_classification_found[h].reason = "missing key"
                /\ \E h \in DOMAIN outfile : outfile[h] = train_file[j]

\* the occurrences (file, line) of composite key k in the result files
Occurrences(k) ==
    { p \in DirPositions(results_dir) :
        /\ IsResultFile(p[1])
        /\ results_dir[p[1]][p[2]].kind = "obj"
        /\ Truthy(results_dir[p[1]][p[2]].case_id)
        /\ Truthy(results_dir[p[1]][p[2]].case_no)
        /\ KeyOf(results_dir[p[1]][p[2]]) = k }

\* processing order: files by name, lines within a file by number
Before(p, q) == LexLess(p[1], q[1]) \/ (p[1] = q[1] /\ p[2] < q[2])

FirstOf(ps) == CHOOSE p \in ps : \A q \in ps \ {p} : Before(p, q)

LastOf(ps) == CHOOSE p \in ps : \A q \in ps \ {p} : Before(q, p)

PayloadAt(p) ==
    IF results_dir[p[1]][p[2]].classification = NoKey
    THEN EmptyClassification
    ELSE results_dir[p[1]][p[2]].classification

DuplicatesOf(k) ==
    { h \in DOMAIN load_duplicates :
        << load_duplicates[h].case_id, load_duplicates[h].case_no >> = k }

\* C7: when a composite key occurs in several entries across the result
\* files, load_classifications records one duplicate (file, line) for every
\* occurrence after the first, and the mapping entry of the key is the
\* payload of its last occurrence: the one in the file that sorts last by
\* name, and the later line within one file.
C7_LastWriteWins ==
    load_pc = "loaded" =>
        \A k \in AllKeys :
            IF Occurrences(k) = {}
            THEN k \notin DOMAIN classifications /\ DuplicatesOf(k) = {}
            ELSE /\ k \in DOMAIN classifications
                 /\ classifications[k] = PayloadAt(LastOf(Occurrences(k)))
                 /\ { << load_duplicates[h].file, load_duplicates[h].line >> : h \in DuplicatesOf(k) }
                       = Occurrences(k) \ { FirstOf(Occurrences(k)) }
                 /\ Cardinality(DuplicatesOf(k)) = Cardinality(Occurrences(k)) - 1

\* the load has ended on two result files named ..._10 and ..._2 that give
\* the same key different payloads; the entry is the one of ..._2
C7_Witness ==
    /\ load_pc = "loaded"
    /\ << 1, 0 >> \in DOMAIN results_dir
    /\ \E k \in AllKeys :
          \E p, q \in Occurrences(k) :
              /\ p[1] = << 1, 0 >>
              /\ q[1] = << 2 >>
              /\ PayloadAt(p) # PayloadAt(q)
              /\ classifications[k] = PayloadAt(q)
              /\ Cardinality(Occurrences(k)) = 3
    /\ Len(load_duplicates) = 2

(***************************************************************************)
(* Properties of the Age Extractor                                         *)
(***************************************************************************)
IsEligibleLine(l) ==
    /\ l.kind = "obj"
    /\ l.gender = "Male" \/ l.gender = "Female"
    /\ l.confidence = "High" \/ l.confidence = "Medium"

\* the eligible records of the input file, in input order
EligibleInput == SelectSeq(age_infile, IsEligibleLine)

\* element j of items is a fact text of at most 2000 characters one of whose
\* matches for field lies within lo .. hi
Qualifies(items, j, field, lo, hi) ==
    /\ items[j].kind = "str"
    /\ items[j].len <= 2000
    /\ \E r \in 1 .. 3 :
          \E h \in DOMAIN items[j][field][r] : items[j][field][r][h] \in lo .. hi

\* among the first ten elements there is one that is no string and no
\* element before it qualifies: the scan for field reaches it
ReachesNonString(items, field, lo, hi) ==
    \E j \in 1 .. Min(Len(items), 10) :
        /\ items[j].kind = "nonstr"
        /\ \A h \in 1 .. (j - 1) : ~Qualifies(items, h, field, lo, hi)

\* the eligible records whose extraction raises no error
Extractable(l) ==
    /\ IsEligibleLine(l)
    /\ l.facts.kind = "list"
    /\ ~ReachesNonString(l.facts.items, "birth", 1850, 2020)
    /\ ~ReachesNonString(l.facts.items, "age", 0, 120)

\* the records the entries of results were made for, in input order
EmittedInput == SelectSeq(age_infile, Extractable)

\* C8: the entries process_dataset writes are, in input order, one entry
\* per input record whose gender is Male or Female and whose confidence is
\* High or Medium, carrying its case_id and case_no, whether or not an age
\* or a birth year was found; no other record has an entry.
C8_Coverage ==
    age_pc = "done" =>
        /\ Len(age_outfile) = Len(EligibleInput)
        /\ \A j \in DOMAIN age_outfile :
              /\ age_outfile[j].case_id = EligibleInput[j].case_id
              /\ age_outfile[j].case_no = EligibleInput[j].case_no

OptionalWithin(v, lo, hi) == v = Absent \/ (Len(v) = 1 /\ v[1] \in lo .. hi)

\* C9: in every emitted entry birth_year is null or within [1850, 2020] and
\* age_at_judgment is null or within [0, 120]; a candidate outside these
\* ranges never appears in the output.
C9_RangeEnforcement ==
    \A j \in DOMAIN results :
        /\ OptionalWithin(results[j].age_info.birth_year, 1850, 2020)
        /\ OptionalWithin(results[j].age_info.age_at_judgment, 0, 120)

\* entries were written for a record whose only matched year is 1749 and
\* for a record whose matches are 1749 then 1975
C9_Witness ==
    /\ age_pc = "done"
    /\ Len(age_outfile) = 2
    /\ Matches(age_infile[1].facts.items, "birth") = << 1749, 1749 >>
    /\ age_outfile[1].age_info.birth_year = Absent
    /\ Matches(age_infile[2].facts.items, "birth") = << 1749, 1975, 1749, 1975 >>
    /\ age_outfile[2].age_info.birth_year = Some(1975)
    /\ age_outfile[2].age_info.age_at_judgment = Some(35)

\* C10: for every eligible record age_source is "calculated" whenever a
\* calculated age (any value in [0, 120]) is available, "direct" when none
\* is but a direct age (any value in [0, 120]) is, and absent only when
\* neither is; so age_source is absent exactly when age_at_judgment is.
C10_AgeSource ==
    \A j \in DOMAIN results :
        LET info == results[j].age_info
            case == EmittedInput[j]
            direct == extract_direct_age(case.facts)
            calculated == calculate_age_at_judgment(extract_birth_year(case.facts),
                                                    case.judgment_date)
        IN  /\ info.age_source = (IF calculated # Absent THEN "calculated"
                                  ELSE IF direct # Absent THEN "direct"
                                  ELSE None)
            /\ (info.age_source = None) <=> (info.age_at_judgment = Absent)

\* C11: for every eligible record the emitted age_at_judgment is the
\* calculated age (judgment year minus birth year, when the birth year was
\* found, judgment_date parses as YYYY-MM-DD and the difference is within
\* [0, 120]) when that is available, else the directly stated age when one
\* was found, else absent.
C11_FinalAgePolicy ==
    \A j \in DOMAIN results :
        LET info == results[j].age_info
            case == EmittedInput[j]
            born == info.birth_year
            date == case.judgment_date
            available == /\ born # Absent
                         /\ date.kind = "date"
                         /\ date.year - born[1] >= 0
                         /\ date.year - born[1] <= 120
        IN  info.age_at_judgment =
                (IF available THEN Some(date.year - born[1])
                 ELSE extract_direct_age(case.facts))

\* entries were written for a record with calculated age 0 and stated age
\* 5, and for a record whose calculated age 160 is rejected and whose
\* stated age is 30
C11_Witness ==
    /\ age_pc = "done"
    /\ Len(age_outfile) = 2
    /\ extract_direct_age(age_infile[1].facts) = Some(5)
    /\ age_outfile[1].age_info.birth_year = Some(2010)
    /\ age_outfile[1].age_info.age_at_judgment = Some(0)
    /\ age_outfile[2].age_info.birth_year = Some(1850)
    /\ age_infile[2].judgment_date = Date(2010)
    /\ age_outfile[2].age_info.age_at_judgment = Some(30)

\* C12: in every component that parses records line by line, a line that
\* fails JSON parsing is caught and skipped and the run goes on to the next
\* line; a malformed line never aborts the run.  Stated for the Split
\* Validator: validate_split is never left by a JSON parse failure.
C12_MalformedLineContained == val_pc # "JSONDecodeError"

\* C13: for every split count N >= 1 the chunk file names split_jsonl
\* produces sort lexically, as the Validator sorts them, in the order they
\* were created: chunk i sorts before chunk j whenever i < j.
C13_NamesSortInCreationOrder ==
    split_pc = "done" =>
        \A i, j \in 1 .. num_splits :
            (i < j /\ Fmt02(i) \in DOMAIN chunk_dir /\ Fmt02(j) \in DOMAIN chunk_dir)
                => LexLess(Fmt02(i), Fmt02(j))

\* C14: the orphaned set check_classifications_not_in_train returns is the
\* set of mapping keys minus the set of composite keys of base records: a
\* loaded key is orphaned if and only if no base record carries it.
C14_OrphanedExactly ==
    merge_pc \in { "report", "done" } =>
        \A k \in AllKeys \cup DOMAIN classifications :
            (k \in orphaned_classifications) <=>
                /\ k \in DOMAIN classifications
                /\ ~\E j \in DOMAIN train_file :
                       train_file[j].kind = "obj" /\ KeyOf(train_file[j]) = k

\* the mapping holds (a, 1) and (a, 2), the base dataset a record (a, 1)
\* and a record without case_no: exactly (a, 2) is orphaned
C14_Witness ==
    /\ merge_pc = "done"
    /\ DOMAIN classifications = { << "a", "1" >>, << "a", "2" >> }
    /\ Len(train_file) = 2
    /\ train_file[1].kind = "obj" /\ KeyOf(train_file[1]) = << "a", "1" >>
    /\ train_file[2].kind = "obj" /\ KeyOf(train_file[2]) = << "a", None >>
    /\ orphaned_classifications = { << "a", "2" >> }

\* C15: with base = floor(L / N), each of the chunks 1..N-1 split_jsonl
\* writes holds exactly base lines and the last chunk holds
\* L - (N-1)*base >= base lines; the chunks are contiguous slices of the
\* source, in order.
C15_Partitioning ==
    LET L == Len(lines)
        N == num_splits
        base == L \div N
    IN  /\ split_pc = "done" => WrittenCount = N
        /\ \A c \in 1 .. WrittenCount :
              /\ Fmt02(c) \in DOMAIN chunk_dir
              /\ LET chunk == WrittenChunks[Fmt02(c)]
                 IN  /\ Len(chunk) = IF c < N THEN base ELSE L - (N - 1) * base
                     /\ L - (N - 1) * base >= base
                     /\ \A j \in DOMAIN chunk : chunk[j] = lines[(c - 1) * base + j]

\* a finished split of three records into two chunks of one and two
\* lines
C15_Witness ==
    /\ split_pc = "done"
    /\ Len(lines) = 3
    /\ num_splits = 2
    /\ lines[1] # lines[2] /\ lines[2] # lines[3]
    /\ chunk_dir[Fmt02(1)] = << lines[1] >>
    /\ chunk_dir[Fmt02(2)] = << lines[2], lines[3] >>

\* the composite keys (case_id, case_no) of the records ls are pairwise
\* distinct
DistinctKeys(ls) ==
    \A h, j \in DOMAIN ls : KeyOf(ls[h]) = KeyOf(ls[j]) => h = j

\* dir without the line at position p
WithoutLine(dir, p) ==
    [n \in DOMAIN dir |->
        IF n = p[1]
        THEN PySlice(dir[n], 0, p[2] - 1) \o PySlice(dir[n], p[2], Len(dir[n]))
        ELSE dir[n]]

\* split_dir is a valid split of original_file into which the line at
\* position p was copied from another chunk file
InjectedAt(p) ==
    LET valid == WithoutLine(split_dir, p)
    IN  /\ Concat(valid, Sorted(DOMAIN valid)) = original_file
        /\ \E q \in DirPositions(split_dir) :
              q[1] # p[1] /\ split_dir[q[1]][q[2]] = split_dir[p[1]][p[2]]

\* C16: from a valid split of a source of well-formed records with pairwise
\* distinct composite keys, copying one record line into a second chunk file
\* makes the duplicate check fail, makes the duplicates map hold that
\* record's identifier with count 2 and nothing else, and makes
\* validate_split return false.
C16_InjectedDuplicateReported ==
    \A p \in DirPositions(split_dir) :
        (/\ AllWellFormed(original_file)
         /\ DistinctKeys(original_file)
         /\ InjectedAt(p)
         /\ val_pc \in { "order_checks", "verdict", "returned" })
            => LET c == split_dir[p[1]][p[2]].case_id
               IN  /\ val_report[2] = << "duplicates", "FAIL" >>
                   /\ DOMAIN duplicates = { c }
                   /\ duplicates[c] = 2
                   /\ val_pc = "returned" => ~all_passed

\* C18: for every source of L well-formed records with pairwise distinct
\* composite keys and every N with 1 <= N <= L, validate_split run on the
\* source and on the chunk files split_jsonl wrote (a directory holding no
\* other file) returns true, also when two records share a case_id and
\* differ in case_no.
C18_SplitThenValidate ==
    (/\ split_pc = "done"
     /\ DOMAIN chunk_dir = DOMAIN WrittenChunks
     /\ AllWellFormed(lines)
     /\ DistinctKeys(lines)
     /\ num_splits <= Len(lines))
        => /\ ~ValRaised
           /\ val_pc = "returned" => all_passed

\* the base records that carry both key fields: the ones the merge phase
\* looks up
FullKey(l) == l.kind = "obj" /\ Truthy(l.case_id) /\ Truthy(l.case_no)

\* the position in the output file of the record written for base line j
OutPos(j) == Cardinality({ h \in 1 .. j : FullKey(train_file[h]) })

ListedUnmatched(j) ==
    \E u \in DOMAIN no_classification_found : no_classification_found[u].line = j

OtherFields(case) == DOMAIN case \ { "classification" }

MergeFrame ==
    \A j \in 1 .. (merge_line - 1) :
        FullKey(train_file[j]) =>
            LET case == train_file[j]
                written == outfile[OutPos(j)]
            IN  /\ OutPos(j) \in DOMAIN outfile
                /\ DOMAIN written = DOMAIN case
                /\ \A f \in OtherFields(case) : written[f] = case[f]
                /\ IF KeyOf(case) \in DOMAIN classifications
                   THEN /\ written.classification = classifications[KeyOf(case)]
                        /\ ~ListedUnmatched(j)
                   ELSE /\ written.classification = case.classification
                        /\ ListedUnmatched(j)

\* C17: a base record whose composite key is in the mapping is written with
\* its classification set to the mapping's payload for that key, every other
\* field unchanged, and is not listed as unmatched; a base record with both
\* key fields whose key is not in the mapping is written with no field
\* changed and is listed as unmatched; no step of the merge phase modifies
\* the mapping.
C17_MergeFrame == []MergeFrame /\ [][classifications' = classifications]_vars

\* a hit that replaces an earlier classification and a miss, both written
C17_Witness ==
    /\ merge_pc = "check"
    /\ train_file = << Case(<< "a", "1" >>, "Old"), Case(<< "b", "1" >>, "Old") >>
    /\ classifications = [k \in { << "a", "1" >> } |-> "Female"]
    /\ outfile = << Case(<< "a", "1" >>, "Female"), Case(<< "b", "1" >>, "Old") >>
    /\ Len(no_classification_found) = 1
    /\ no_classification_found[1].line = 2

\* C19 as stated for every line of the base dataset: a "perfect merge"
\* verdict implies that the output file holds one record for every line of
\* the base dataset, in input order, each carrying the classification the
\* mapping holds for its composite key, and that the mapping keys are
\* exactly the base composite keys; lines that fail to parse included.
C19_PerfectCoversEveryLine ==
    verdict = "perfect merge" =>
        /\ Len(outfile) = Len(train_file)
        /\ \A j \in DOMAIN train_file :
              /\ FullKey(train_file[j])
              /\ KeyOf(train_file[j]) \in DOMAIN classifications
              /\ outfile[j] = [train_file[j] EXCEPT
                                 !.classification = classifications[KeyOf(train_file[j])]]
        /\ DOMAIN classifications =
              { KeyOf(train_file[j]) : j \in { h \in DOMAIN train_file : FullKey(train_file[h]) } }

\* the lines of the base dataset that parse to a JSON object
ParsedRecords == SelectSeq(train_file, LAMBDA l : l.kind = "obj")

\* C19: a "perfect merge" verdict (no duplicates, no unmatched base records,
\* no orphaned classifications) implies that the output file holds one
\* record for every line of the base dataset that parses to a JSON object,
\* in input order, each carrying the classification the mapping holds for
\* its composite key, and that the mapping keys are exactly the base
\* composite keys; a line that fails to parse is skipped and has no record
\* in the output.
C19_PerfectVerdictSound ==
    verdict = "perfect merge" =>
        /\ Len(load_duplicates) = 0
        /\ Len(no_classification_found) = 0
        /\ orphaned_classifications = {}
        /\ Len(outfile) = Len(ParsedRecords)
        /\ \A j \in DOMAIN ParsedRecords :
              /\ FullKey(ParsedRecords[j])
              /\ KeyOf(ParsedRecords[j]) \in DOMAIN classifications
              /\ outfile[j] = [ParsedRecords[j] EXCEPT
                                 !.classification = classifications[KeyOf(ParsedRecords[j])]]
        /\ DOMAIN classifications = { KeyOf(ParsedRecords[j]) : j \in DOMAIN ParsedRecords }

\* a perfect merge of a base dataset whose first line fails to parse
C19_Witness ==
    /\ merge_pc = "done"
    /\ verdict = "perfect merge"
    /\ train_file = << BadLine, Case(<< "a", "1" >>, "Old") >>
    /\ outfile = << Case(<< "a", "1" >>, "Male") >>

\* the number of times identifier c occurs in the sequence ids
CountIn(ids, c) == Cardinality({ j \in DOMAIN ids : ids[j] = c })

\* C20: whenever validate_split returns true, every case_id occurs in the
\* identifiers read from the chunk files as many times as in those read from
\* the source file, and that is at most once; the order in which the chunks
\* list the identifiers has no part in a true verdict.
C20_TrueVerdictSameMultiset ==
    (val_pc = "returned" /\ all_passed) =>
        \A c \in Range(original_case_ids) \cup Range(split_case_ids) :
            /\ CountIn(split_case_ids, c) = CountIn(original_case_ids, c)
            /\ CountIn(original_case_ids, c) = 1

\* validate_split has returned true on chunks listing the two identifiers of
\* the source in the opposite order
C20_Witness ==
    /\ val_pc = "returned"
    /\ all_passed
    /\ Len(original_case_ids) = 2
    /\ split_case_ids = << original_case_ids[2], original_case_ids[1] >>
    /\ original_case_ids[1] # original_case_ids[2]

====
